---- MODULE Spec2Model ----
(***************************************************************************)
(* Equipment / bag lifecycle of Norte_API: reservation and transaction     *)
(* handlers acting on the entity store (equipment, bags, events,           *)
(* reservations, transactions, audit_log).                                 *)
(*                                                                         *)
(* Time is an integer axis of UTC instants whose unit is three hours, the   *)
(* offset of Brasilia from UTC; a date column holds the wall clock that was *)
(* written to it, without its offset.  Reservation windows only compare     *)
(* with one another.  Row ids are the positions of the rows in their table.  Columns that no  *)
(* handler reads (code, name, notes, scheduled_date, reserved_by, ...)     *)
(* are left out of the rows.                                               *)
(***************************************************************************)
EXTENDS Integers, Sequences, FiniteSets, TLC

VARIABLES equipment, bags, events, reservations, transactions, audit_log,
          now, resp, session

store == <<equipment, bags, events, reservations, transactions, audit_log>>

vars == <<equipment, bags, events, reservations, transactions, audit_log,
          now, resp, session>>

-----------------------------------------------------------------------------
(* Bounds of the model *)

\* dates of reservation windows are 0 .. MaxTime
MaxTime == 1

\* rows of the reservations table under Spec
MaxReservations == 2

\* rows of the reservations table under SpecLifecycle
MaxHeld == 1

\* rows of the transactions table
MaxTransactions == 2

\* the clock runs over 0 .. MaxNow
MaxNow == 1

\* rows of the audit log under SpecTransactions
MaxAudit == 3

\* rows of the transactions table under SpecTransactions
MaxMoves == 3

-----------------------------------------------------------------------------
(* Identifiers and enumerations *)

NULL == "null"

\* a date column or payload date that is not set
NoDate == -1

\* the values of an audit row that has none
NoValues == << >>

\* an id that names no row of any table
GHOST == "zz"

EquipmentIds == {"x1", "m1", "m2"}

BagIds == {"b1"}

EventIds == {"e1", "e2"}

Times == 0 .. MaxTime

EquipmentStatus == {"available", "reserved", "in_use", "maintenance", "excluded"}

BagStatus == {"available", "reserved", "in_use", "excluded"}

EventStatus == {"planned", "confirmed", "in_progress", "completed", "cancelled"}

TransactionType == {"withdrawal", "return"}

TransactionStatus == {"pending", "confirmed", "completed", "cancelled"}

ReservationStatus == {"active", "completed", "cancelled"}

\* timedelta(hours=24), in units of the time axis
CompletionWindow == 8

\* BRASILIA_OFFSET = timedelta(hours=-3): UTC is the Brasilia wall clock plus this
BrasiliaOffset == 1

\* the wall clock in Brasilia at instant t: what a DateTime column of SQLite
\* keeps of a datetime written with BRASILIA_TZ
brasilia_wall(t) == t - BrasiliaOffset

\* event_end.replace(tzinfo=timezone.utc): the instant of a naive wall clock
\* read as UTC
replace_tzinfo_utc(wall) == wall

-----------------------------------------------------------------------------
(* Responses *)

Response(op, code, detail, rid) ==
    [op |-> op, code |-> code, detail |-> detail, rid |-> rid]

NoResponse == Response("none", 0, "", 0)

-----------------------------------------------------------------------------
(* Store after init_db: a standalone equipment, a bag with an available    *)
(* and a maintenance member, a confirmed and a planned event.  is_active   *)
(* takes the column default and is written by no handler.  The dates of    *)
(* the events were written with the Brasilia offset: e1 ended 18 hours     *)
(* and e2 15 hours before instant 0.                                       *)

SeedEquipment ==
    [x \in EquipmentIds |->
        CASE x = "x1" -> [status |-> "available",   bag_id |-> NULL]
          [] x = "m1" -> [status |-> "available",   bag_id |-> "b1"]
          [] x = "m2" -> [status |-> "maintenance", bag_id |-> "b1"]]

SeedEvents ==
    [e \in EventIds |->
        CASE e = "e1" -> [status |-> "confirmed", start_date |-> brasilia_wall(-6),
                          end_date |-> brasilia_wall(-6)]
          [] e = "e2" -> [status |-> "planned",   start_date |-> brasilia_wall(-6),
                          end_date |-> brasilia_wall(-5)]]

Init ==
    /\ equipment = SeedEquipment
    /\ bags = [b \in BagIds |-> [status |-> "available", is_active |-> TRUE]]
    /\ events = SeedEvents
    /\ reservations = << >>
    /\ transactions = << >>
    /\ audit_log = << >>
    /\ now = 0
    /\ resp = NoResponse
    /\ session = << >>

-----------------------------------------------------------------------------
(* Store helpers *)

Reject(op, code, detail, rid) ==
    /\ resp' = Response(op, code, detail, rid)
    /\ UNCHANGED <<store, now, session>>

\* db.query(Equipment).filter(Equipment.bag_id == bag.id).all()
bag_equipment(eq, b) == {x \in DOMAIN eq : eq[x].bag_id = b}

\* the loop without its status test: every member is set
cascade_every_member(eq, b, from, to) ==
    [x \in DOMAIN eq |->
        IF x \in bag_equipment(eq, b) THEN [eq[x] EXCEPT !.status = to] ELSE eq[x]]

\* for eq in bag_equipment: if eq.status in from: eq.status = to
cascade(eq, b, from, to) ==
    [x \in DOMAIN eq |->
        IF x \in bag_equipment(eq, b) /\ eq[x].status \in from
        THEN [eq[x] EXCEPT !.status = to]
        ELSE eq[x]]

\* the constraint written as "not both": a row without any resource passes
check_equipment_or_bag_not_both(row) ==
    ~ (row.equipment_id # NULL /\ row.bag_id # NULL)

\* CheckConstraint check_equipment_or_bag_reservation / check_equipment_or_bag
check_equipment_or_bag(row) ==
    \/ (row.equipment_id # NULL /\ row.bag_id = NULL)
    \/ (row.equipment_id = NULL /\ row.bag_id # NULL)

\* CheckConstraint check_reservation_dates
check_reservation_dates(row) == row.end_date >= row.start_date

\* ForeignKey columns of a reservation or transaction row (PRAGMA foreign_keys=ON)
foreign_keys_ok(row) ==
    /\ row.equipment_id = NULL \/ row.equipment_id \in DOMAIN equipment
    /\ row.bag_id = NULL \/ row.bag_id \in DOMAIN bags
    /\ row.event_id \in DOMAIN events

-----------------------------------------------------------------------------
(* Conflict checker *)

\* the filter of check_reservation_conflict applied to one row
conflicts(r, equipment_id, bag_id, start_date, end_date) ==
    /\ r.status = "active"
    /\ \/ (r.equipment_id = equipment_id /\ equipment_id # NULL)
       \/ (r.bag_id = bag_id /\ bag_id # NULL)
    /\ r.start_date < end_date
    /\ r.end_date > start_date

\* the checker without its exclude_reservation_id filter
check_reservation_conflict_no_exclude(rs, equipment_id, bag_id, start_date, end_date, exclude_reservation_id) ==
    \E i \in DOMAIN rs : conflicts(rs[i], equipment_id, bag_id, start_date, end_date)

check_reservation_conflict(rs, equipment_id, bag_id, start_date, end_date, exclude_reservation_id) ==
    \E i \in DOMAIN rs :
        /\ conflicts(rs[i], equipment_id, bag_id, start_date, end_date)
        /\ (exclude_reservation_id # 0 => i # exclude_reservation_id)

-----------------------------------------------------------------------------
(* Request payloads *)

\* ReservationBase.validate_equipment_or_bag: a field validator of bag_id,
\* run only when the payload carries the bag_id field
validate_equipment_or_bag(req) ==
    req.bag_set =>
        ~ \/ (req.equipment_id = NULL /\ req.bag_id = NULL)
          \/ (req.equipment_id # NULL /\ req.bag_id # NULL)

\* ReservationBase.validate_dates
ReservationBase_validate_dates(req) == ~ (req.end_date < req.start_date)

\* ReservationUpdate.validate_dates: compares only when both dates are given
ReservationUpdate_validate_dates(req) ==
    ~ (req.end_date # NoDate /\ req.start_date # NoDate /\ req.end_date < req.start_date)

\* (equipment_id, bag_id, bag_id present in the payload)
ResourceChoices ==
    {<<"x1", NULL, FALSE>>, <<"m1", NULL, FALSE>>, <<GHOST, NULL, FALSE>>,
     <<NULL, "b1", TRUE>>, <<"x1", "b1", TRUE>>,
     <<NULL, NULL, FALSE>>, <<NULL, NULL, TRUE>>}

ReservationPayload(c, e, s, t, st) ==
    [equipment_id |-> c[1], bag_id |-> c[2], bag_set |-> c[3], event_id |-> e,
     start_date |-> s, end_date |-> t, status |-> st]

\* payloads of create_reservation: every window and status on the two
\* reservable resources, and one payload of every other shape
ReservationCreate ==
    {ReservationPayload(c, "e1", s, t, st) :
        c \in {<<"x1", NULL, FALSE>>, <<NULL, "b1", TRUE>>},
        s \in Times, t \in Times, st \in {"active"}}
    \cup {ReservationPayload(c, "e1", 0, MaxTime, "cancelled") :
            c \in {<<"x1", NULL, FALSE>>, <<NULL, "b1", TRUE>>}}
    \cup {ReservationPayload(c, "e1", 0, MaxTime, "active") : c \in ResourceChoices}
    \cup {ReservationPayload(c, e, 0, MaxTime, "active") :
            c \in {<<"x1", NULL, FALSE>>, <<NULL, "b1", TRUE>>}, e \in {"e2", GHOST}}

\* payloads of update_reservation: any dates without a status, a status
\* without dates, and a status with the window [0, 0]
ReservationUpdate ==
    [start_date : Times \cup {NoDate}, end_date : Times \cup {NoDate}, status : {NULL}]
    \cup [start_date : {NoDate}, end_date : {NoDate}, status : {"active", "cancelled"}]
    \cup [start_date : {0}, end_date : {0}, status : {"active", "cancelled"}]

\* payloads of create_reservation with one window: every shape of payload
ReservationCreateOneWindow ==
    {ReservationPayload(c, "e1", 0, 1, st) :
        c \in ResourceChoices, st \in {"active", "cancelled"}}
    \cup {ReservationPayload(c, e, 0, 1, "active") :
            c \in {<<"x1", NULL, FALSE>>, <<NULL, "b1", TRUE>>}, e \in {"e2", GHOST}}

\* payloads of update_reservation that carry only a status
ReservationUpdateStatus ==
    [start_date : {NoDate}, end_date : {NoDate}, status : ReservationStatus]

-----------------------------------------------------------------------------
(* Reservation handlers *)

\* set_status(eq, x, to): equipment.status = to, when the row was found
set_status(eq, x, to) ==
    IF x # NULL /\ x \in DOMAIN eq THEN [eq EXCEPT ![x].status = to] ELSE eq

\* the cascade of create_reservation narrowed to available members
reserve_available_only(eq, req) ==
    LET direct == set_status(eq, req.equipment_id, "reserved") IN
    IF req.bag_id # NULL
    THEN cascade(direct, req.bag_id, {"available"}, "reserved")
    ELSE direct

\* lines 186-194 of create_reservation: the equipment, then every member of the bag
reserve(eq, req) ==
    LET direct == set_status(eq, req.equipment_id, "reserved") IN
    IF req.bag_id # NULL
    THEN cascade(direct, req.bag_id, EquipmentStatus, "reserved")
    ELSE direct

ReservationRow(req) ==
    [equipment_id |-> req.equipment_id, bag_id |-> req.bag_id,
     event_id |-> req.event_id, start_date |-> req.start_date,
     end_date |-> req.end_date, status |-> req.status]

\* the membership test refusing only members that are not available
belongs_to_bag_unless_available(eq) ==
    eq.bag_id # NULL /\ eq.status # "available"

\* line 131: the equipment is a member of some bag
belongs_to_bag(eq) ==
    eq.bag_id # NULL

\* the list of create_transaction (line 98) used for reservations
event_accepts_reservations_as_transactions(status) ==
    status \in {"planned", "confirmed", "in_progress"}

\* line 114: the event statuses that accept reservations
event_accepts_reservations(status) == status \in {"confirmed", "in_progress"}

\* the precondition checks of create_reservation, lines 105-177:
\* <<0, "">> when they all pass, the error otherwise
create_reservation_check(req) ==
    IF ~ (validate_equipment_or_bag(req) /\ ReservationBase_validate_dates(req))
    THEN <<422, "validation">>
    ELSE IF req.event_id \notin DOMAIN events
    THEN <<404, "Event not found">>
    ELSE IF ~ event_accepts_reservations(events[req.event_id].status)
    THEN <<400, "event status">>
    ELSE IF req.equipment_id # NULL /\ req.equipment_id \notin DOMAIN equipment
    THEN <<404, "Equipment not found">>
    ELSE IF req.equipment_id # NULL /\ belongs_to_bag(equipment[req.equipment_id])
    THEN <<400, "belongs to a bag">>
    ELSE IF req.equipment_id # NULL /\ equipment[req.equipment_id].status # "available"
    THEN <<400, "Equipment is not available">>
    ELSE IF req.bag_id # NULL /\ req.bag_id \notin DOMAIN bags
    THEN <<404, "Bag not found">>
    ELSE IF req.bag_id # NULL /\ ~ bags[req.bag_id].is_active
    THEN <<400, "Bag is not active">>
    ELSE IF req.bag_id # NULL /\ bags[req.bag_id].status # "available"
    THEN <<400, "Bag is not available">>
    ELSE IF check_reservation_conflict(reservations, req.equipment_id, req.bag_id,
                                       req.start_date, req.end_date, 0)
    THEN <<409, "Conflicting reservation">>
    ELSE <<0, "">>

\* the constraints of the reservations table, checked when the row is flushed
reservation_constraints(row) ==
    /\ check_equipment_or_bag(row)
    /\ check_reservation_dates(row)
    /\ foreign_keys_ok(row)

\* lines 179-196: the new row and the status writes, committed together
create_reservation_write(req) ==
    /\ reservations' = Append(reservations, ReservationRow(req))
    /\ equipment' = reserve(equipment, req)
    /\ bags' = IF req.bag_id # NULL
               THEN [bags EXCEPT ![req.bag_id].status = "reserved"]
               ELSE bags
    /\ UNCHANGED <<events, transactions, audit_log, now>>

create_reservation(req) ==
    LET op == "create_reservation"
        chk == create_reservation_check(req)
    IN
    IF chk[1] # 0
    THEN Reject(op, chk[1], chk[2], 0)
    ELSE IF ~ reservation_constraints(ReservationRow(req))
    THEN Reject(op, 500, "IntegrityError", 0)
    ELSE /\ create_reservation_write(req)
         /\ resp' = Response(op, 201, "", Len(reservations) + 1)
         /\ UNCHANGED session

\* the release of lines 244-256 and 291-303: the equipment, then every member of the bag
release(eq, r) ==
    LET direct == set_status(eq, r.equipment_id, "available") IN
    IF r.bag_id # NULL
    THEN cascade(direct, r.bag_id, EquipmentStatus, "available")
    ELSE direct

update_reservation(reservation_id, req) ==
    LET op == "update_reservation" IN
    IF ~ ReservationUpdate_validate_dates(req)
    THEN Reject(op, 422, "validation", reservation_id)
    ELSE IF reservation_id \notin DOMAIN reservations
    THEN Reject(op, 404, "Reservation not found", reservation_id)
    ELSE
      LET reservation == reservations[reservation_id]
          new_start == IF req.start_date # NoDate THEN req.start_date ELSE reservation.start_date
          new_end == IF req.end_date # NoDate THEN req.end_date ELSE reservation.end_date
          updated == [reservation EXCEPT
                        !.start_date = new_start,
                        !.end_date = new_end,
                        !.status = IF req.status # NULL THEN req.status ELSE @]
          released == req.status \in {"cancelled", "completed"}
      IN
      IF /\ (req.start_date # NoDate \/ req.end_date # NoDate)
         /\ check_reservation_conflict(reservations, reservation.equipment_id,
                                       reservation.bag_id, new_start, new_end, reservation_id)
      THEN Reject(op, 409, "Conflicting reservation", reservation_id)
      ELSE IF ~ check_reservation_dates(updated)
      THEN Reject(op, 500, "IntegrityError", reservation_id)
      ELSE /\ reservations' = [reservations EXCEPT ![reservation_id] = updated]
           /\ equipment' = IF released THEN release(equipment, reservation) ELSE equipment
           /\ bags' = IF released /\ reservation.bag_id # NULL
                      THEN [bags EXCEPT ![reservation.bag_id].status = "available"]
                      ELSE bags
           /\ resp' = Response(op, 200, "", reservation_id)
           /\ UNCHANGED <<events, transactions, audit_log, now, session>>

\* the test refusing only reservations that are already cancelled
is_active_reservation_or_completed(reservation) ==
    reservation.status # "cancelled"

\* line 282: only active reservations can be cancelled
is_active_reservation(reservation) ==
    reservation.status = "active"

\* cancel_reservation releasing the bag but none of its members
cancel_reservation_keeps_members(reservation_id) ==
    LET op == "cancel_reservation" IN
    IF reservation_id \notin DOMAIN reservations
    THEN Reject(op, 404, "Reservation not found", reservation_id)
    ELSE
      LET reservation == reservations[reservation_id] IN
      IF ~ is_active_reservation(reservation)
      THEN Reject(op, 400, "Only active reservations can be cancelled", reservation_id)
      ELSE /\ reservations' = [reservations EXCEPT ![reservation_id].status = "cancelled"]
           /\ equipment' = set_status(equipment, reservation.equipment_id, "available")
           /\ bags' = IF reservation.bag_id # NULL
                      THEN [bags EXCEPT ![reservation.bag_id].status = "available"]
                      ELSE bags
           /\ resp' = Response(op, 204, "", reservation_id)
           /\ UNCHANGED <<events, transactions, audit_log, now, session>>

cancel_reservation(reservation_id) ==
    LET op == "cancel_reservation" IN
    IF reservation_id \notin DOMAIN reservations
    THEN Reject(op, 404, "Reservation not found", reservation_id)
    ELSE
      LET reservation == reservations[reservation_id] IN
      IF ~ is_active_reservation(reservation)
      THEN Reject(op, 400, "Only active reservations can be cancelled", reservation_id)
      ELSE /\ reservations' = [reservations EXCEPT ![reservation_id].status = "cancelled"]
           /\ equipment' = release(equipment, reservation)
           /\ bags' = IF reservation.bag_id # NULL
                      THEN [bags EXCEPT ![reservation.bag_id].status = "available"]
                      ELSE bags
           /\ resp' = Response(op, 204, "", reservation_id)
           /\ UNCHANGED <<events, transactions, audit_log, now, session>>

-----------------------------------------------------------------------------
(* Audit recorder *)

\* create_audit_log: one audit_log row added to the session
create_audit_log(table_name, record_id, action, old_values, new_values) ==
    [table_name |-> table_name, record_id |-> record_id, action |-> action,
     old_values |-> old_values, new_values |-> new_values]

audit_insert(table_name, record_id, row) ==
    create_audit_log(table_name, record_id, "INSERT", NoValues, row)

\* the failure leaving behind what the handler wrote, as if it had committed
\* before recording the audit rows
audit_raises_after_commit(op, rid, writes) ==
    /\ writes
    /\ resp' = Response(op, 500, "audit", rid)
    /\ UNCHANGED <<now, session>>

\* lines 79-81 of create_audit_log: the recorder logs the error and raises it
\* again; the handler ends before its db.commit(), get_db closes the session
\* and the writes of the handler are rolled back
audit_raises(op, rid, writes) ==
    Reject(op, 500, "audit", rid)

audit_equipment_status_change(equipment_id, old_status, new_status) ==
    create_audit_log("equipment", equipment_id, "UPDATE",
                     [status |-> old_status], [status |-> new_status])

-----------------------------------------------------------------------------
(* Transaction creation *)

TransactionPayload(c, e, ty, st) ==
    [equipment_id |-> c[1], bag_id |-> c[2], bag_set |-> c[3], event_id |-> e,
     transaction_type |-> ty, status |-> st]

\* payloads of create_transaction: every shape of payload and the member in
\* maintenance for event e1, and a withdrawal of the standalone equipment for
\* the other events
TransactionCreate ==
    {TransactionPayload(c, "e1", ty, "pending") :
        c \in ResourceChoices \cup {<<"m2", NULL, FALSE>>}, ty \in TransactionType}
    \cup {TransactionPayload(<<"x1", NULL, FALSE>>, e, "withdrawal", "cancelled") :
            e \in EventIds \cup {GHOST}}

\* the order in which bag.equipment_items yields the members
EquipmentOrder == <<"x1", "m1", "m2">>

\* every member of bag b, whatever its status
cascaded_every_member(eq, b, from) ==
    SelectSeq(EquipmentOrder, LAMBDA x : x \in bag_equipment(eq, b))

\* the members of bag b whose status is in from, in relationship order
cascaded(eq, b, from) ==
    SelectSeq(EquipmentOrder, LAMBDA x : x \in bag_equipment(eq, b) /\ eq[x].status \in from)

\* one audit row per cascaded member
cascade_audit(eq, b, from, to) ==
    LET xs == cascaded(eq, b, from) IN
    [i \in 1 .. Len(xs) |-> audit_equipment_status_change(xs[i], eq[xs[i]].status, to)]

count_transactions(txs, event_id, ty) ==
    Cardinality({i \in DOMAIN txs : txs[i].event_id = event_id /\ txs[i].transaction_type = ty})

\* the withdrawal advancing confirmed events only
advanced_by_withdrawal_confirmed_only(status) ==
    status = "confirmed"

\* line 265: the event statuses a withdrawal advances to in_progress
advanced_by_withdrawal(status) ==
    status \in {"planned", "confirmed"}

\* lines 298-306: the end date read as UTC, plus 24 hours, has passed at
\* instant t (now_brasilia() is an aware datetime: it compares as an instant)
window_passed(ev, t) ==
    replace_tzinfo_utc(ev.end_date) + CompletionWindow <= t

\* a return that covers the withdrawals before the completion window has
\* passed putting the event back to confirmed
event_after_reverting(ev, txs, req, t) ==
    IF req.transaction_type = "withdrawal"
    THEN IF advanced_by_withdrawal(ev.status) THEN "in_progress" ELSE ev.status
    ELSE LET event_withdrawals == count_transactions(txs, req.event_id, "withdrawal")
             event_returns == count_transactions(txs, req.event_id, "return") + 1
         IN IF /\ event_withdrawals > 0
               /\ event_returns >= event_withdrawals
               /\ ev.status = "in_progress"
            THEN IF window_passed(ev, t) THEN "completed" ELSE "confirmed"
            ELSE ev.status

\* lines 262-314: the event status after the transaction; txs holds the new
\* row, flushed at line 194 before the counts are queried
event_after(ev, txs, req, t) ==
    IF req.transaction_type = "withdrawal"
    THEN IF advanced_by_withdrawal(ev.status) THEN "in_progress" ELSE ev.status
    ELSE LET event_withdrawals == count_transactions(txs, req.event_id, "withdrawal")
             event_returns == count_transactions(txs, req.event_id, "return") + 1
         IN IF /\ event_withdrawals > 0
               /\ event_returns >= event_withdrawals
               /\ ev.status = "in_progress"
               /\ window_passed(ev, t)
            THEN "completed"
            ELSE ev.status

\* the withdrawal test refusing only equipment that is in use
can_withdraw_unless_in_use(status) ==
    status # "in_use"

\* line 117: the equipment statuses a withdrawal accepts
can_withdraw(status) ==
    status \in {"available", "reserved"}

\* the event test refusing only cancelled events
event_accepts_transactions_unless_cancelled(status) ==
    status # "cancelled"

\* line 98: the event statuses that accept transactions
event_accepts_transactions(status) ==
    status \in {"planned", "confirmed", "in_progress"}

\* the precondition checks of create_transaction, lines 89-174
create_transaction_check(req) ==
    IF ~ validate_equipment_or_bag(req)
    THEN <<422, "validation">>
    ELSE IF req.event_id \notin DOMAIN events
    THEN <<404, "Event not found">>
    ELSE IF ~ event_accepts_transactions(events[req.event_id].status)
    THEN <<400, "event status">>
    ELSE IF req.equipment_id # NULL /\ req.equipment_id \notin DOMAIN equipment
    THEN <<404, "Equipment not found">>
    ELSE IF /\ req.equipment_id # NULL
            /\ req.transaction_type = "withdrawal"
            /\ ~ can_withdraw(equipment[req.equipment_id].status)
    THEN <<400, "Equipment in use">>
    ELSE IF /\ req.equipment_id # NULL
            /\ req.transaction_type = "return"
            /\ equipment[req.equipment_id].status # "in_use"
    THEN <<400, "Equipment is not currently in use">>
    ELSE IF /\ req.bag_id # NULL
            /\ req.transaction_type = "withdrawal"
            /\ req.bag_id \in DOMAIN bags
            /\ bags[req.bag_id].status = "in_use"
    THEN <<400, "Bag in use">>
    ELSE <<0, "">>

\* the row keeping the status of the payload
created_status_of_payload(req) ==
    req.status

\* lines 183-188: withdrawals and returns are marked completed at once
created_status(req) ==
    IF req.transaction_type \in {"withdrawal", "return"} THEN "completed" ELSE req.status

\* Transaction(**transaction_dict), with the status of lines 183-188
TransactionRow(req) ==
    [equipment_id |-> req.equipment_id, bag_id |-> req.bag_id,
     event_id |-> req.event_id, transaction_type |-> req.transaction_type,
     status |-> created_status(req), actual_date |-> NoDate]

\* lines 193-316: the new row, its audit row, the status writes with their
\* audit rows and the event status, committed together
create_transaction_write(req) ==
    LET row == TransactionRow(req)
        id == Len(transactions) + 1
        to == IF req.transaction_type = "withdrawal" THEN "in_use" ELSE "available"
        from == IF req.transaction_type = "withdrawal"
                THEN {"available", "reserved"} ELSE {"in_use"}
        txs == Append(transactions, row)
    IN
    /\ transactions' = txs
    /\ equipment' =
          LET direct == set_status(equipment, req.equipment_id, to) IN
          IF req.bag_id # NULL
          THEN cascade(direct, req.bag_id, from, to)
          ELSE direct
    /\ bags' = IF req.bag_id # NULL
               THEN [bags EXCEPT ![req.bag_id].status = to]
               ELSE bags
    /\ audit_log' =
          audit_log \o << audit_insert("transactions", ToString(id), row) >> \o
          (IF req.equipment_id # NULL
           THEN << audit_equipment_status_change(
                      req.equipment_id, equipment[req.equipment_id].status, to) >>
           ELSE << >>) \o
          (IF req.bag_id # NULL
           THEN cascade_audit(equipment, req.bag_id, from, to)
           ELSE << >>)
    /\ events' = [events EXCEPT ![req.event_id].status =
                     event_after(events[req.event_id], txs, req, now)]
    /\ UNCHANGED reservations

create_transaction(req) ==
    LET op == "create_transaction"
        chk == create_transaction_check(req)
        row == TransactionRow(req)
    IN
    IF chk[1] # 0
    THEN Reject(op, chk[1], chk[2], 0)
    ELSE IF ~ (check_equipment_or_bag(row) /\ foreign_keys_ok(row))
    THEN Reject(op, 500, "IntegrityError", 0)
    ELSE \/ /\ create_transaction_write(req)
            /\ resp' = Response(op, 201, "", Len(transactions) + 1)
            /\ UNCHANGED <<now, session>>
         \/ audit_raises(op, 0, create_transaction_write(req))

-----------------------------------------------------------------------------
(* Transaction update and cancellation, event cancellation *)

\* the row replacing the rows the log holds for the same record
add_audit_merging(log, row) ==
    SelectSeq(log, LAMBDA r : ~ (r.table_name = row.table_name /\ r.record_id = row.record_id))
        \o << row >>

\* db.add(audit), line 75 of create_audit_log: the row is one more row of the log
add_audit(log, row) ==
    Append(log, row)

\* audit_update: one UPDATE row with the row before and the row after
audit_update(table_name, record_id, old_values, row) ==
    create_audit_log(table_name, record_id, "UPDATE", old_values, row)

\* payloads of update_transaction: a status, or nothing at all
TransactionUpdate ==
    [status : {"pending", "completed", "cancelled", NULL}, actual_date : {NoDate}]

\* payloads of create_transaction on the standalone equipment and on the bag
\* for event e1, and a withdrawal of the equipment for the other events
TransactionCreateMoves ==
    {TransactionPayload(c, "e1", ty, "pending") :
        c \in {<<"x1", NULL, FALSE>>, <<NULL, "b1", TRUE>>}, ty \in TransactionType}
    \cup {TransactionPayload(<<"x1", NULL, FALSE>>, e, "withdrawal", "cancelled") :
            e \in {"e2", GHOST}}

update_transaction(transaction_id, req) ==
    LET op == "update_transaction" IN
    IF transaction_id \notin DOMAIN transactions
    THEN Reject(op, 404, "Transaction not found", transaction_id)
    ELSE
      LET transaction == transactions[transaction_id]
          assigned == [transaction EXCEPT
                          !.status = IF req.status # NULL THEN req.status ELSE @,
                          !.actual_date = IF req.actual_date # NoDate
                                          THEN req.actual_date ELSE @]
          updated == IF req.status = "completed" /\ assigned.actual_date = NoDate
                     THEN [assigned EXCEPT !.actual_date = now]
                     ELSE assigned
          writes == /\ transactions' = [transactions EXCEPT ![transaction_id] = updated]
                    /\ audit_log' = add_audit(audit_log,
                                              audit_update("transactions",
                                                           ToString(transaction_id),
                                                           transaction, updated))
                    /\ UNCHANGED <<equipment, bags, events, reservations>>
      IN
      \/ /\ writes
         /\ resp' = Response(op, 200, "", transaction_id)
         /\ UNCHANGED <<now, session>>
      \/ audit_raises(op, transaction_id, writes)

\* line 388: the only status cancel_transaction refuses
cancel_refused(status) ==
    status = "completed"

\* the cancellation undoing the withdrawal: the equipment of the row is
\* available again
cancel_transaction_write_releasing(transaction_id) ==
    LET transaction == transactions[transaction_id]
        updated == [transaction EXCEPT !.status = "cancelled"]
    IN
    /\ transactions' = [transactions EXCEPT ![transaction_id] = updated]
    /\ audit_log' = add_audit(audit_log,
                              audit_update("transactions", ToString(transaction_id),
                                           transaction, updated))
    /\ equipment' = set_status(equipment, transaction.equipment_id, "available")
    /\ UNCHANGED <<bags, events, reservations>>

\* lines 394-409: the status of the row and its audit row, committed together
cancel_transaction_write(transaction_id) ==
    LET transaction == transactions[transaction_id]
        updated == [transaction EXCEPT !.status = "cancelled"]
    IN
    /\ transactions' = [transactions EXCEPT ![transaction_id] = updated]
    /\ audit_log' = add_audit(audit_log,
                              audit_update("transactions", ToString(transaction_id),
                                           transaction, updated))
    /\ UNCHANGED <<equipment, bags, events, reservations>>

cancel_transaction(transaction_id) ==
    LET op == "cancel_transaction" IN
    IF transaction_id \notin DOMAIN transactions
    THEN Reject(op, 404, "Transaction not found", transaction_id)
    ELSE
      LET transaction == transactions[transaction_id]
          writes == cancel_transaction_write(transaction_id)
      IN
      IF cancel_refused(transaction.status)
      THEN Reject(op, 400, "Cannot cancel a completed transaction", transaction_id)
      ELSE \/ /\ writes
              /\ resp' = Response(op, 204, "", transaction_id)
              /\ UNCHANGED <<now, session>>
           \/ audit_raises(op, transaction_id, writes)

\* delete_event: the event is kept and its status set to cancelled
delete_event(event_id) ==
    LET op == "delete_event" IN
    IF event_id \notin DOMAIN events
    THEN Reject(op, 404, "Event not found", 0)
    ELSE /\ events' = [events EXCEPT ![event_id].status = "cancelled"]
         /\ resp' = Response(op, 204, "", 0)
         /\ UNCHANGED <<equipment, bags, reservations, transactions, audit_log,
                        now, session>>

\* the clock collaborator: now_brasilia() advances between calls
Tick ==
    /\ now < MaxNow
    /\ now' = now + 1
    /\ UNCHANGED <<store, resp, session>>

-----------------------------------------------------------------------------
(* Calls and responses: a handler is called when no response is pending,   *)
(* and its response is delivered before the next call.                     *)

Idle == resp = NoResponse

Deliver ==
    /\ ~ Idle
    /\ resp' = NoResponse
    /\ UNCHANGED <<store, now, session>>

\* Max caps the table: a call that would add row Max + 1 is not taken
CreateReservation(Reqs, Max) ==
    /\ Idle
    /\ \E req \in Reqs : create_reservation(req)
    /\ Len(reservations') <= Max

UpdateReservation(Reqs, Max) ==
    /\ Idle
    /\ \E id \in 1 .. Max, req \in Reqs : update_reservation(id, req)

CancelReservation(Max) ==
    /\ Idle
    /\ \E id \in 1 .. Max : cancel_reservation(id)

CreateTransaction(Reqs) ==
    /\ Idle
    /\ \E req \in Reqs : create_transaction(req)
    /\ Len(transactions') <= MaxTransactions

-----------------------------------------------------------------------------
(* Reservation calls, one at a time, with every window *)

Next ==
    \/ CreateReservation(ReservationCreate, MaxReservations)
    \/ UpdateReservation(ReservationUpdate, MaxReservations)
    \/ CancelReservation(MaxReservations)
    \/ Deliver

Spec == Init /\ [][Next]_vars

-----------------------------------------------------------------------------
(* Concurrent create_reservation calls: each request has its own session   *)
(* (get_db), reads and checks in one step and writes and commits in a      *)
(* later one; nothing orders the steps of different requests.              *)

Procs == {"p1", "p2"}

SessionIdle == [pc |-> "idle", req |-> NULL, code |-> 0, rid |-> 0]

InitConc ==
    /\ equipment = SeedEquipment
    /\ bags = [b \in BagIds |-> [status |-> "available", is_active |-> TRUE]]
    /\ events = SeedEvents
    /\ reservations = << >>
    /\ transactions = << >>
    /\ audit_log = << >>
    /\ now = 0
    /\ resp = NoResponse
    /\ session = [p \in Procs |-> SessionIdle]

\* lines 105-177 in the session of request p
SessionCheck(p) ==
    /\ session[p].pc = "idle"
    /\ \E req \in ReservationCreate :
          LET chk == create_reservation_check(req) IN
          session' = [session EXCEPT ![p] =
                         IF chk[1] # 0
                         THEN [pc |-> "done", req |-> req, code |-> chk[1], rid |-> 0]
                         ELSE [pc |-> "checked", req |-> req, code |-> 0, rid |-> 0]]
    /\ UNCHANGED <<store, now, resp>>

\* lines 179-196 in the session of request p
SessionCommit(p) ==
    /\ session[p].pc = "checked"
    /\ LET req == session[p].req IN
       IF ~ reservation_constraints(ReservationRow(req))
       THEN /\ session' = [session EXCEPT ![p].pc = "done", ![p].code = 500]
            /\ UNCHANGED store
       ELSE /\ create_reservation_write(req)
            /\ session' = [session EXCEPT ![p].pc = "done", ![p].code = 201,
                                          ![p].rid = Len(reservations) + 1]
    /\ UNCHANGED <<now, resp>>

NextConc ==
    \/ \E p \in Procs : SessionCheck(p)
    \/ \E p \in Procs : SessionCommit(p)

SpecConc == InitConc /\ [][NextConc]_vars

-----------------------------------------------------------------------------
(* Reservation and transaction calls, one at a time, with one window and  *)
(* the clock standing still                                              *)

NextLifecycle ==
    \/ CreateReservation(ReservationCreateOneWindow, MaxHeld)
    \/ UpdateReservation(ReservationUpdateStatus, MaxHeld)
    \/ CancelReservation(MaxHeld)
    \/ CreateTransaction(TransactionCreate)
    \/ Deliver

SpecLifecycle == Init /\ [][NextLifecycle]_vars

-----------------------------------------------------------------------------
(* Transaction calls, one at a time, with event cancellation and the clock *)

CreateMove ==
    /\ Idle
    /\ \E req \in TransactionCreateMoves : create_transaction(req)
    /\ Len(transactions') <= MaxMoves

UpdateTransaction ==
    /\ Idle
    /\ \E id \in 1 .. MaxMoves, req \in TransactionUpdate :
          update_transaction(id, req)
    /\ Len(audit_log') <= MaxAudit

CancelTransaction ==
    /\ Idle
    /\ \E id \in 1 .. MaxMoves : cancel_transaction(id)
    /\ Len(audit_log') <= MaxAudit

DeleteEvent ==
    /\ Idle
    /\ \E id \in EventIds \cup {GHOST} : delete_event(id)

NextTransactions ==
    \/ CreateMove
    \/ UpdateTransaction
    \/ CancelTransaction
    \/ DeleteEvent
    \/ Tick
    \/ Deliver

SpecTransactions == Init /\ [][NextTransactions]_vars

-----------------------------------------------------------------------------
(* Equipment and bag administration.  An equipment is known by its code,   *)
(* which create_equipment keeps unique.                                    *)

\* a code that no equipment of init_db has
NewCodes == {"n1"}

\* payloads of create_equipment
EquipmentCreate ==
    [code : EquipmentIds \cup NewCodes, status : {"available", "maintenance"},
     bag_id : {NULL, "b1", GHOST}]

\* payloads of update_equipment: status NULL is a payload without status,
\* bag_set tells whether the payload carries bag_id (null included)
EquipmentUpdate ==
    [status : {NULL, "available", "maintenance", "excluded"},
     bag_id : {NULL, "", "b1"}, bag_set : {TRUE}]
    \cup [status : {NULL, "available", "maintenance", "excluded"},
          bag_id : {NULL}, bag_set : {FALSE}]

create_equipment(req) ==
    LET op == "create_equipment" IN
    IF req.code \in DOMAIN equipment
    THEN Reject(op, 400, "Equipment code already exists", 0)
    ELSE IF ~ (req.bag_id = NULL \/ req.bag_id \in DOMAIN bags)
    THEN Reject(op, 500, "IntegrityError", 0)
    ELSE /\ equipment' =
              [x \in DOMAIN equipment \cup {req.code} |->
                  IF x = req.code
                  THEN [status |-> req.status, bag_id |-> req.bag_id]
                  ELSE equipment[x]]
         /\ resp' = Response(op, 201, "", 0)
         /\ UNCHANGED <<bags, events, reservations, transactions, audit_log,
                        now, session>>

update_equipment(equipment_id, req) ==
    LET op == "update_equipment" IN
    IF equipment_id \notin DOMAIN equipment
    THEN Reject(op, 404, "Equipment not found", 0)
    ELSE
      LET eq == equipment[equipment_id]
          \* lines 174-180: the bag_id of the payload is replaced by None
          clears == req.status \in {"maintenance", "excluded"} /\ eq.bag_id # NULL
          \* lines 183-186: an empty string stands for None
          given == IF req.bag_id = "" THEN NULL ELSE req.bag_id
          updated == [status |-> IF req.status # NULL THEN req.status ELSE eq.status,
                      bag_id |-> IF clears THEN NULL
                                 ELSE IF req.bag_set THEN given
                                 ELSE eq.bag_id]
      IN
      /\ equipment' = [equipment EXCEPT ![equipment_id] = updated]
      /\ resp' = Response(op, 200, "", 0)
      /\ UNCHANGED <<bags, events, reservations, transactions, audit_log,
                     now, session>>

delete_equipment(equipment_id) ==
    LET op == "delete_equipment" IN
    IF equipment_id \notin DOMAIN equipment
    THEN Reject(op, 404, "Equipment not found", 0)
    ELSE /\ equipment' = [equipment EXCEPT ![equipment_id] =
                             [status |-> "excluded", bag_id |-> NULL]]
         /\ resp' = Response(op, 204, "", 0)
         /\ UNCHANGED <<bags, events, reservations, transactions, audit_log,
                        now, session>>

add_equipment_to_bag(bag_id, equipment_code) ==
    LET op == "add_equipment_to_bag" IN
    IF bag_id \notin DOMAIN bags
    THEN Reject(op, 404, "Bag not found", 0)
    ELSE IF bags[bag_id].status = "excluded"
    THEN Reject(op, 400, "Cannot add equipment to excluded bag", 0)
    ELSE IF equipment_code \notin DOMAIN equipment
    THEN Reject(op, 404, "Equipment not found", 0)
    ELSE IF equipment[equipment_code].bag_id # NULL /\ equipment[equipment_code].bag_id # bag_id
    THEN Reject(op, 400, "Equipment already belongs to another bag", 0)
    ELSE IF equipment[equipment_code].bag_id = bag_id
    THEN Reject(op, 400, "Equipment already in this bag", 0)
    ELSE /\ equipment' = [equipment EXCEPT ![equipment_code].bag_id = bag_id]
         /\ resp' = Response(op, 200, "", 0)
         /\ UNCHANGED <<bags, events, reservations, transactions, audit_log,
                        now, session>>

remove_equipment_from_bag(bag_id, equipment_id) ==
    LET op == "remove_equipment_from_bag" IN
    IF bag_id \notin DOMAIN bags
    THEN Reject(op, 404, "Bag not found", 0)
    ELSE IF equipment_id \notin DOMAIN equipment
    THEN Reject(op, 404, "Equipment not found", 0)
    ELSE IF equipment[equipment_id].bag_id # bag_id
    THEN Reject(op, 400, "Equipment does not belong to this bag", 0)
    ELSE /\ equipment' = [equipment EXCEPT ![equipment_id].bag_id = NULL]
         /\ resp' = Response(op, 204, "", 0)
         /\ UNCHANGED <<bags, events, reservations, transactions, audit_log,
                        now, session>>

\* delete_bag: the bag is kept and its status set to excluded
delete_bag(bag_id) ==
    LET op == "delete_bag" IN
    IF bag_id \notin DOMAIN bags
    THEN Reject(op, 404, "Bag not found", 0)
    ELSE /\ bags' = [bags EXCEPT ![bag_id].status = "excluded"]
         /\ resp' = Response(op, 204, "", 0)
         /\ UNCHANGED <<equipment, events, reservations, transactions, audit_log,
                        now, session>>

\* the equipment ids a caller names: the codes in use and one that is not
EquipmentNames == EquipmentIds \cup NewCodes

CreateEquipment ==
    /\ Idle
    /\ \E req \in EquipmentCreate : create_equipment(req)

UpdateEquipment ==
    /\ Idle
    /\ \E id \in EquipmentNames, req \in EquipmentUpdate : update_equipment(id, req)

DeleteEquipment ==
    /\ Idle
    /\ \E id \in EquipmentNames : delete_equipment(id)

AddEquipmentToBag ==
    /\ Idle
    /\ \E b \in BagIds \cup {GHOST}, code \in EquipmentNames : add_equipment_to_bag(b, code)

RemoveEquipmentFromBag ==
    /\ Idle
    /\ \E b \in BagIds \cup {GHOST}, id \in EquipmentNames :
          remove_equipment_from_bag(b, id)

DeleteBag ==
    /\ Idle
    /\ \E b \in BagIds \cup {GHOST} : delete_bag(b)

NextEquipment ==
    \/ CreateEquipment
    \/ UpdateEquipment
    \/ DeleteEquipment
    \/ AddEquipmentToBag
    \/ RemoveEquipmentFromBag
    \/ DeleteBag
    \/ Deliver

SpecEquipment == Init /\ [][NextEquipment]_vars

-----------------------------------------------------------------------------
(* Vocabulary of the properties *)

\* rows a and b reserve the same equipment or the same bag
same_resource(a, b) ==
    \/ (a.equipment_id # NULL /\ a.equipment_id = b.equipment_id)
    \/ (a.bag_id # NULL /\ a.bag_id = b.bag_id)

\* the half-open overlap test of the specification
overlap(a, b) == a.start_date < b.end_date /\ a.end_date > b.start_date

\* the row the pending response is about
the_reservation == reservations[resp.rid]

created_reservation == resp.op = "create_reservation" /\ resp.code = 201

\* the response pending is that of a successful create_transaction
created_transaction == resp.op = "create_transaction" /\ resp.code = 201

\* the row it created
the_transaction == transactions[resp.rid]

\* the step is a call of handler op: calls start with no response pending
called(op) == Idle /\ resp'.op = op

-----------------------------------------------------------------------------
(* C1 *)

\* C1: in every state reached by create_reservation, update_reservation and
\* cancel_reservation calls, no two distinct active reservations on the same
\* equipment (or the same bag) have overlapping windows.
C1_NoOverlap ==
    \A i, j \in DOMAIN reservations :
        (/\ i # j
         /\ reservations[i].status = "active"
         /\ reservations[j].status = "active"
         /\ same_resource(reservations[i], reservations[j]))
        => ~ overlap(reservations[i], reservations[j])

-----------------------------------------------------------------------------
(* C2 *)

\* C2: when two create_reservation requests for the same resource with
\* overlapping windows run concurrently, at most one of them ends with an
\* active reservation on that resource; the other is rejected.
C2_AtMostOneWins ==
    \A p, q \in Procs :
        (/\ p # q
         /\ session[p].pc = "done"
         /\ session[q].pc = "done"
         /\ same_resource(session[p].req, session[q].req)
         /\ overlap(session[p].req, session[q].req))
        => ~ (/\ session[p].code = 201
              /\ session[q].code = 201
              /\ reservations[session[p].rid].status = "active"
              /\ reservations[session[q].rid].status = "active")

-----------------------------------------------------------------------------
(* C3 *)

exactly_one_resource(row) == (row.equipment_id = NULL) # (row.bag_id = NULL)

\* C3: every Reservation row and every Transaction row has exactly one of
\* equipment_id and bag_id set, and a create request that supplies both or
\* neither leaves no row behind.
C3_ExactlyOneResource ==
    [][/\ \A i \in DOMAIN reservations' : exactly_one_resource(reservations'[i])
       /\ \A i \in DOMAIN transactions' : exactly_one_resource(transactions'[i])
       /\ resp'.op = "create_reservation" =>
             \/ resp'.code # 201 /\ reservations' = reservations
             \/ \A req \in ReservationCreateOneWindow :
                   ~ (~ exactly_one_resource(req) /\ create_reservation(req))
       /\ resp'.op = "create_transaction" =>
             \/ resp'.code # 201 /\ transactions' = transactions
             \/ \A req \in TransactionCreate :
                   ~ (~ exactly_one_resource(req) /\ create_transaction(req))]_vars

\* a payload without any resource was rejected by the table constraint while
\* both tables hold rows
C3_Witness ==
    /\ resp.op = "create_transaction"
    /\ resp.code = 500
    /\ Len(reservations) > 0
    /\ Len(transactions) > 0

-----------------------------------------------------------------------------
(* C4 *)

\* equipment X has exactly one reservation, it is active, and the payload is a
\* valid one for X and a valid event whose window starts at that reservation's end
C4_Case(req) ==
    /\ req.equipment_id \in DOMAIN equipment
    /\ req.bag_id = NULL
    /\ req.status = "active"
    /\ req.start_date <= req.end_date
    /\ req.event_id \in DOMAIN events
    /\ events[req.event_id].status \in {"confirmed", "in_progress"}
    /\ \E i \in DOMAIN reservations :
          /\ reservations[i].equipment_id = req.equipment_id
          /\ reservations[i].status = "active"
          /\ req.start_date = reservations[i].end_date
          /\ \A j \in DOMAIN reservations \ {i} :
                reservations[j].equipment_id # req.equipment_id

\* C4: while equipment X holds an active reservation with window [s, e], a
\* create_reservation for X whose window starts exactly at e is accepted and
\* yields a second active reservation.
C4_AdjacentAccepted ==
    [][resp'.op = "create_reservation" =>
          \A req \in ReservationCreate :
              (C4_Case(req) /\ create_reservation(req))
              => /\ resp'.code = 201
                 /\ Len(reservations') = Len(reservations) + 1
                 /\ reservations'[resp'.rid].status = "active"]_vars

-----------------------------------------------------------------------------
(* C5 *)

\* a payload that passes validation, for an event that accepts reservations
\* and a resource that may be reserved, whose window overlaps an active
\* reservation on that resource
C5_Case(req) ==
    /\ exactly_one_resource(req)
    /\ req.start_date <= req.end_date
    /\ req.event_id \in DOMAIN events
    /\ events[req.event_id].status \in {"confirmed", "in_progress"}
    /\ req.equipment_id # NULL =>
          (req.equipment_id \in DOMAIN equipment /\ equipment[req.equipment_id].bag_id = NULL)
    /\ req.bag_id # NULL => (req.bag_id \in DOMAIN bags /\ bags[req.bag_id].is_active)
    /\ \E i \in DOMAIN reservations :
          /\ reservations[i].status = "active"
          /\ same_resource(reservations[i], req)
          /\ overlap(reservations[i], req)

-----------------------------------------------------------------------------
(* C6 *)

\* the window reservation id would have after the update
C6_NewWindow(id, req) ==
    [start_date |-> IF req.start_date # NoDate THEN req.start_date
                    ELSE reservations[id].start_date,
     end_date |-> IF req.end_date # NoDate THEN req.end_date
                  ELSE reservations[id].end_date]

\* the other active reservations on the resource of reservation id
C6_Others(id) ==
    {j \in DOMAIN reservations \ {id} :
        /\ reservations[j].status = "active"
        /\ same_resource(reservations[j], reservations[id])}

\* some other active reservation on the same resource overlaps the new window
C6_OtherOverlaps(id, req) ==
    \E j \in C6_Others(id) : overlap(reservations[j], C6_NewWindow(id, req))

\* the payloads that supply a start or an end date and pass validation
C6_Payloads ==
    {req \in ReservationUpdate :
        /\ req.start_date # NoDate \/ req.end_date # NoDate
        /\ ReservationUpdate_validate_dates(req)}

\* C6: an update_reservation of an existing reservation that supplies a start
\* or an end date (a payload that passes validation) is rejected with Conflict,
\* the store unchanged, exactly when some other active reservation on the same
\* resource overlaps the new window; the reservation itself never counts.
C6_UpdateConflict ==
    [][(resp'.op = "update_reservation" /\ resp'.rid \in DOMAIN reservations) =>
          /\ \/ resp'.code = 409 /\ UNCHANGED store
             \/ C6_Others(resp'.rid) = {}
             \/ \A req \in C6_Payloads :
                   ~ (C6_OtherOverlaps(resp'.rid, req) /\ update_reservation(resp'.rid, req))
          /\ resp'.code = 409 =>
                \A req \in C6_Payloads :
                    update_reservation(resp'.rid, req) => C6_OtherOverlaps(resp'.rid, req)]_vars

\* an update was refused with Conflict while the updated reservation is active
C6_Witness ==
    /\ resp.op = "update_reservation"
    /\ resp.code = 409
    /\ the_reservation.status = "active"

-----------------------------------------------------------------------------
(* C7 *)

\* C7: immediately after a successful bag reservation the bag is reserved and
\* so is every equipment whose bag_id is that bag, whatever its status was.
C7_BagCascade ==
    (created_reservation /\ the_reservation.bag_id # NULL) =>
        /\ bags[the_reservation.bag_id].status = "reserved"
        /\ \A x \in DOMAIN equipment :
              equipment[x].bag_id = the_reservation.bag_id
              => equipment[x].status = "reserved"

\* the bag was reserved right after member m1 was withdrawn on its own, so
\* m1 was in_use and m2 in maintenance when the call was made
C7_Witness ==
    /\ created_reservation
    /\ the_reservation.bag_id = "b1"
    /\ Len(reservations) = 1
    /\ Len(transactions) = 1
    /\ transactions[1].equipment_id = "m1"
    /\ transactions[1].transaction_type = "withdrawal"
    /\ equipment["m1"].status = "reserved"
    /\ equipment["m2"].status = "reserved"

-----------------------------------------------------------------------------
(* C8 *)

\* the step releases reservation resp'.rid: a cancel, or an update that sets
\* the status to cancelled or completed
C8_Releases ==
    \/ resp'.op = "cancel_reservation" /\ resp'.code = 204
    \/ /\ resp'.op = "update_reservation"
       /\ resp'.code = 200
       /\ \E req \in ReservationUpdateStatus :
             /\ req.status \in {"cancelled", "completed"}
             /\ update_reservation(resp'.rid, req)

\* C8: when an active bag reservation is released (cancelled or completed) the
\* bag becomes available and only the members whose status is reserved become
\* available; every other member keeps its status.
C8_ReleaseOnlyReserved ==
    [][(/\ C8_Releases
        /\ reservations[resp'.rid].bag_id # NULL
        /\ reservations[resp'.rid].status = "active") =>
          LET b == reservations[resp'.rid].bag_id IN
          /\ bags'[b].status = "available"
          /\ \A x \in DOMAIN equipment :
                equipment[x].bag_id = b =>
                    equipment'[x].status =
                        IF equipment[x].status = "reserved"
                        THEN "available" ELSE equipment[x].status]_vars

-----------------------------------------------------------------------------
(* C9 *)

\* C9: every reservation row produced by a successful create_reservation has
\* status active right after the call, whatever the payload contains, and the
\* reserved equipment (or bag) has status reserved.
C9_CreatedActive ==
    created_reservation =>
        /\ the_reservation.status = "active"
        /\ the_reservation.equipment_id # NULL
              => equipment[the_reservation.equipment_id].status = "reserved"
        /\ the_reservation.bag_id # NULL
              => bags[the_reservation.bag_id].status = "reserved"

-----------------------------------------------------------------------------
(* C10 *)

\* the event does not accept reservations, or the target equipment is not
\* available, or the target bag is not active or not available
C10_Case(req) ==
    \/ /\ req.event_id \in DOMAIN events
       /\ events[req.event_id].status \notin {"confirmed", "in_progress"}
    \/ /\ req.equipment_id \in DOMAIN equipment
       /\ equipment[req.equipment_id].status # "available"
    \/ /\ req.bag_id \in DOMAIN bags
       /\ (~ bags[req.bag_id].is_active \/ bags[req.bag_id].status # "available")

\* C10: create_reservation is rejected, with no reservation created and no
\* equipment or bag status changed, whenever the event's status is not
\* confirmed or in_progress, or the target equipment is not available, or the
\* target bag is not active or not available.
C10_Preconditions ==
    [][resp'.op = "create_reservation" =>
          \/ resp'.code \notin {200, 201} /\ UNCHANGED store
          \/ \A req \in ReservationCreate :
                ~ (C10_Case(req) /\ create_reservation(req))]_vars

\* a reservation of the bag was refused because the bag is reserved, with a
\* reservation already in the table
C10_Witness ==
    /\ resp.op = "create_reservation"
    /\ resp.code = 400
    /\ resp.detail = "Bag is not available"
    /\ bags["b1"].status = "reserved"
    /\ Len(reservations) > 0

-----------------------------------------------------------------------------
(* C11 *)

\* the payload names an existing equipment whose bag_id is set
C11_Case(req) ==
    /\ req.equipment_id \in DOMAIN equipment
    /\ equipment[req.equipment_id].bag_id # NULL

\* C11: a create_reservation naming an equipment whose bag_id is set is always
\* rejected, with no reservation created and no equipment status changed.
C11_BagMemberRejected ==
    [][called("create_reservation") =>
          \/ /\ resp'.code \notin {200, 201}
             /\ reservations' = reservations
             /\ equipment' = equipment
          \/ \A req \in ReservationCreateOneWindow :
                ~ (C11_Case(req) /\ create_reservation(req))]_vars

\* the available member m1 was refused because it belongs to a bag
C11_Witness ==
    /\ resp = Response("create_reservation", 400, "belongs to a bag", 0)
    /\ equipment["m1"].status = "available"
    /\ equipment["m1"].bag_id = "b1"

-----------------------------------------------------------------------------
(* C12 *)

\* C12: cancel_reservation on a reservation whose status is cancelled or
\* completed fails with a precondition error (400) and leaves the reservations,
\* the equipment (bag members included) and the bags unchanged.
C12_CancelInactiveRejected ==
    [][(/\ called("cancel_reservation")
        /\ resp'.rid \in DOMAIN reservations
        /\ reservations[resp'.rid].status \in {"cancelled", "completed"})
       => /\ resp'.code = 400
          /\ reservations' = reservations
          /\ equipment' = equipment
          /\ bags' = bags]_vars

\* the cancellation of a completed reservation was refused
C12_Witness ==
    /\ resp.op = "cancel_reservation"
    /\ resp.code = 400
    /\ the_reservation.status = "completed"

-----------------------------------------------------------------------------
(* C13 *)

\* C13: cancel_transaction on a transaction whose status is already cancelled
\* or completed fails with a precondition error (400) and leaves the whole
\* store unchanged, the transaction row and the audit log included.
C13_CancelTerminalRejected ==
    [][(/\ called("cancel_transaction")
        /\ resp'.rid \in DOMAIN transactions
        /\ transactions[resp'.rid].status \in {"cancelled", "completed"})
       => (resp'.code = 400 /\ UNCHANGED store)]_vars

-----------------------------------------------------------------------------
(* C14 *)

\* the update payload that carries only status = cancelled
C14_Payload == [start_date |-> NoDate, end_date |-> NoDate, status |-> "cancelled"]

\* the step is a cancel_reservation, or an update_reservation with only
\* status = cancelled, of reservation resp'.rid, which is active
C14_Case ==
    /\ resp'.rid \in DOMAIN reservations
    /\ reservations[resp'.rid].status = "active"
    /\ \/ called("cancel_reservation")
       \/ called("update_reservation") /\ update_reservation(resp'.rid, C14_Payload)

\* the one state both calls must lead to: the reservation cancelled, its
\* equipment or its bag and the bag's members available, all else as before
C14_Result(id) ==
    LET r == reservations[id] IN
    /\ reservations' = [reservations EXCEPT ![id].status = "cancelled"]
    /\ equipment' =
          [x \in DOMAIN equipment |->
              IF x = r.equipment_id \/ (r.bag_id # NULL /\ equipment[x].bag_id = r.bag_id)
              THEN [equipment[x] EXCEPT !.status = "available"]
              ELSE equipment[x]]
    /\ bags' =
          [b \in DOMAIN bags |->
              IF b = r.bag_id THEN [bags[b] EXCEPT !.status = "available"] ELSE bags[b]]
    /\ UNCHANGED <<events, transactions, audit_log>>

\* C14: for any active reservation and any store state, cancel_reservation and
\* update_reservation with only status = cancelled both succeed and lead to
\* the same resulting state of the reservation, the equipment, the bag and
\* the bag's members.
C14_CancelIsUpdateToCancelled ==
    [][C14_Case => (resp'.code \in {200, 204} /\ C14_Result(resp'.rid))]_vars

\* an active bag reservation was cancelled and member m1 is available again
C14_Witness ==
    /\ resp.op = "cancel_reservation"
    /\ resp.code = 204
    /\ the_reservation.bag_id = "b1"
    /\ the_reservation.status = "cancelled"
    /\ equipment["m1"].status = "available"

-----------------------------------------------------------------------------
(* C15 *)

\* the payload names an event whose status is completed or cancelled
C15_Case(req) ==
    /\ req.event_id \in DOMAIN events
    /\ events[req.event_id].status \in {"completed", "cancelled"}

\* C15: a create_transaction (withdrawal or return, equipment or bag) for an
\* event whose status is completed or cancelled is rejected and changes
\* nothing: no transaction row, no audit row, no equipment, bag or event
\* status change.
C15_ClosedEventRejected ==
    [][called("create_transaction") =>
          \/ resp'.code \notin {200, 201} /\ UNCHANGED store
          \/ \A req \in TransactionCreateMoves :
                ~ (C15_Case(req) /\ create_transaction(req))]_vars

\* a transaction was refused for event e1, which a return had completed
C15_Witness ==
    /\ resp = Response("create_transaction", 400, "event status", 0)
    /\ events["e1"].status = "completed"
    /\ Len(transactions) = 2

-----------------------------------------------------------------------------
(* C16 *)

\* the payload names a single existing equipment
C16_Case(req) ==
    /\ req.equipment_id \in DOMAIN equipment
    /\ req.bag_id = NULL

\* a withdrawal of an available or reserved equipment, or a return of one in use
C16_Allowed(req) ==
    \/ /\ req.transaction_type = "withdrawal"
       /\ equipment[req.equipment_id].status \in {"available", "reserved"}
    \/ /\ req.transaction_type = "return"
       /\ equipment[req.equipment_id].status = "in_use"

\* C16: a create_transaction on a single equipment is accepted only if it is a
\* withdrawal and the equipment is available or reserved, or a return and the
\* equipment is in_use; otherwise it is rejected and the equipment, the events,
\* the transactions and the audit log are unchanged.
C16_EquipmentPreconditions ==
    [][called("create_transaction") =>
          \/ resp'.code \notin {200, 201} /\ UNCHANGED store
          \/ \A req \in TransactionCreate :
                ~ (C16_Case(req) /\ ~ C16_Allowed(req) /\ create_transaction(req))]_vars

\* a withdrawal was refused while the standalone equipment is reserved and
\* the members are available and in maintenance: it was that of member m2
C16_Witness ==
    /\ resp = Response("create_transaction", 400, "Equipment in use", 0)
    /\ equipment["x1"].status = "reserved"
    /\ equipment["m1"].status = "available"
    /\ equipment["m2"].status = "maintenance"

-----------------------------------------------------------------------------
(* C17 *)

\* the payload is a withdrawal of an existing bag whose status is in_use
C17_Case(req) ==
    /\ req.bag_id \in DOMAIN bags
    /\ req.transaction_type = "withdrawal"
    /\ bags[req.bag_id].status = "in_use"

\* between two withdrawals of one bag there is a return of that bag
C17_ReturnBetween(txs) ==
    \A i, j \in DOMAIN txs :
        (/\ i < j
         /\ txs[i].bag_id # NULL
         /\ txs[j].bag_id = txs[i].bag_id
         /\ txs[i].transaction_type = "withdrawal"
         /\ txs[j].transaction_type = "withdrawal")
        => \E k \in DOMAIN txs :
              /\ i < k
              /\ k < j
              /\ txs[k].bag_id = txs[i].bag_id
              /\ txs[k].transaction_type = "return"

\* C17: a withdrawal transaction for a bag whose status is in_use is rejected,
\* leaving the store unchanged, so that a bag is never withdrawn twice without
\* a return in between.
C17_BagWithdrawnOnce ==
    [][/\ called("create_transaction") =>
             \/ resp'.code \notin {200, 201} /\ UNCHANGED store
             \/ \A req \in TransactionCreate :
                   ~ (C17_Case(req) /\ create_transaction(req))
       /\ C17_ReturnBetween(transactions')]_vars

-----------------------------------------------------------------------------
(* C18 *)

\* C18: every transaction row produced by a successful create_transaction,
\* withdrawal or return, has status completed right after the call, whatever
\* status the payload carried.
C18_CreatedCompleted ==
    created_transaction => the_transaction.status = "completed"

\* a withdrawal for event e2 was created: its payload carried status cancelled
C18_Witness ==
    /\ created_transaction
    /\ the_transaction.event_id = "e2"
    /\ the_transaction.transaction_type = "withdrawal"
    /\ the_transaction.status = "completed"

-----------------------------------------------------------------------------
(* C19 *)

\* C19: in every reachable state every transaction whose status is completed
\* has actual_date set.
C19_CompletedHasActualDate ==
    \A i \in DOMAIN transactions :
        transactions[i].status = "completed" => transactions[i].actual_date # NoDate

-----------------------------------------------------------------------------
(* C20 *)

\* the step is a successful create_transaction on a bag
C20_Case ==
    /\ called("create_transaction")
    /\ resp'.code = 201
    /\ transactions'[resp'.rid].bag_id # NULL

\* C20: a successful bag withdrawal sets the bag to in_use and exactly the
\* members that were available or reserved to in_use; a successful bag return
\* sets the bag to available and exactly the members that were in_use to
\* available; every other member, and every equipment outside the bag, keeps
\* its status.
C20_BagCascade ==
    [][C20_Case =>
          LET row == transactions'[resp'.rid]
              b == row.bag_id
              withdrawal == row.transaction_type = "withdrawal"
              to == IF withdrawal THEN "in_use" ELSE "available"
              moved(x) == /\ equipment[x].bag_id = b
                          /\ IF withdrawal
                             THEN equipment[x].status \in {"available", "reserved"}
                             ELSE equipment[x].status = "in_use"
          IN
          /\ bags'[b].status = to
          /\ \A x \in DOMAIN equipment :
                equipment'[x] = IF moved(x)
                                THEN [equipment[x] EXCEPT !.status = to]
                                ELSE equipment[x]]_vars

\* a bag withdrawal succeeded with member m1 taken, member m2 left in
\* maintenance and the standalone equipment left reserved
C20_Witness ==
    /\ created_transaction
    /\ the_transaction.bag_id = "b1"
    /\ the_transaction.transaction_type = "withdrawal"
    /\ bags["b1"].status = "in_use"
    /\ equipment["m1"].status = "in_use"
    /\ equipment["m2"].status = "maintenance"
    /\ equipment["x1"].status = "reserved"

-----------------------------------------------------------------------------
(* C21 *)

\* C21: after any successful withdrawal transaction the status of its event is
\* in_progress: a planned or confirmed event is advanced in the same call and
\* an in_progress event stays in_progress.
C21_WithdrawalStartsEvent ==
    (created_transaction /\ the_transaction.transaction_type = "withdrawal")
    => events[the_transaction.event_id].status = "in_progress"

\* the first withdrawal for the planned event e2 succeeded and e2 is in_progress
C21_Witness ==
    /\ created_transaction
    /\ the_transaction.transaction_type = "withdrawal"
    /\ the_transaction.event_id = "e2"
    /\ events["e2"].status = "in_progress"
    /\ events["e1"].status = "confirmed"

-----------------------------------------------------------------------------
(* C22 *)

\* C22: a return transaction advances its event to completed only if the
\* return transactions recorded for the event, the one just created counted
\* once, are at least as many as its withdrawal transactions, and there is a
\* withdrawal; with fewer returns than withdrawals the event is not completed.
\* (An event that is completed while the response of a return for it is
\* pending was completed by that return: no transaction is created for a
\* completed event.)
C22_ReturnsCoverWithdrawals ==
    (/\ created_transaction
     /\ the_transaction.transaction_type = "return"
     /\ events[the_transaction.event_id].status = "completed")
    => /\ count_transactions(transactions, the_transaction.event_id, "withdrawal") > 0
       /\ count_transactions(transactions, the_transaction.event_id, "return")
             >= count_transactions(transactions, the_transaction.event_id, "withdrawal")

-----------------------------------------------------------------------------
(* C23 *)

\* the instant at which the event ends: its end_date was written as a wall
\* clock of Brasilia
end_instant(ev) == ev.end_date + BrasiliaOffset

\* the step is a successful create_transaction of a return
C23_Case ==
    /\ called("create_transaction")
    /\ resp'.code = 201
    /\ transactions'[resp'.rid].transaction_type = "return"

\* C23: a return transaction created while the current time is before the
\* event's end_date + 24 hours never changes the event's status, even when
\* the returns cover the withdrawals; a return changes the status of its event
\* only from in_progress to completed and only at or after end_date + 24 hours.
C23_CompletionWindow ==
    [][C23_Case =>
          LET e == transactions'[resp'.rid].event_id IN
          /\ now < end_instant(events[e]) + CompletionWindow => events' = events
          /\ events' # events =>
                /\ events[e].status = "in_progress"
                /\ events' = [events EXCEPT ![e].status = "completed"]
                /\ now >= end_instant(events[e]) + CompletionWindow]_vars

-----------------------------------------------------------------------------
(* C24 *)

\* the equipment whose status the step changes
C24_Changed == {x \in DOMAIN equipment : equipment'[x].status # equipment[x].status}

\* the audit rows the step appends
C24_Added == SubSeq(audit_log', Len(audit_log) + 1, Len(audit_log'))

\* C24: each successful create_transaction appends to the audit log first one
\* INSERT row for the new transaction and then exactly one UPDATE row, with
\* {status: old} and {status: new}, for each equipment whose status the call
\* changed (the direct equipment or each cascaded bag member), and no UPDATE
\* row for an equipment whose status it did not change.
C24_AuditRows ==
    [][(called("create_transaction") /\ resp'.code = 201) =>
          /\ SubSeq(audit_log', 1, Len(audit_log)) = audit_log
          /\ Len(C24_Added) = 1 + Cardinality(C24_Changed)
          /\ C24_Added[1].table_name = "transactions"
          /\ C24_Added[1].action = "INSERT"
          /\ C24_Added[1].record_id = ToString(resp'.rid)
          /\ C24_Added[1].new_values = transactions'[resp'.rid]
          /\ \A x \in C24_Changed :
                \E i \in 2 .. Len(C24_Added) :
                    C24_Added[i] = [table_name |-> "equipment", record_id |-> x,
                                    action |-> "UPDATE",
                                    old_values |-> [status |-> equipment[x].status],
                                    new_values |-> [status |-> equipment'[x].status]]
          /\ \A i \in 2 .. Len(C24_Added) :
                /\ C24_Added[i].table_name = "equipment"
                /\ C24_Added[i].record_id \in C24_Changed]_vars

\* the first transaction, a withdrawal of the bag, left two audit rows: its
\* INSERT and the UPDATE of member m1, none for member m2 in maintenance
C24_Witness ==
    /\ created_transaction
    /\ the_transaction.bag_id = "b1"
    /\ Len(audit_log) = 2
    /\ audit_log[1].action = "INSERT"
    /\ audit_log[2] = audit_equipment_status_change("m1", "available", "in_use")
    /\ equipment["m2"].status = "maintenance"

-----------------------------------------------------------------------------
(* C25 *)

\* the step is a successful call of a reservation or transaction handler
C25_Successful ==
    /\ Idle
    /\ resp'.op \in {"create_reservation", "update_reservation", "cancel_reservation",
                     "create_transaction", "update_transaction", "cancel_transaction"}
    /\ resp'.code \in {200, 201, 204}

\* the step appends an audit row for record id of table table_name
C25_Audited(table_name, id) ==
    \E i \in Len(audit_log) + 1 .. Len(audit_log') :
        /\ audit_log'[i].table_name = table_name
        /\ audit_log'[i].record_id = id

\* C25: every successful reservation create, update or cancel and every
\* successful transaction create, update or cancel appends, in the same
\* commit, at least one audit row for each equipment, bag, event, reservation
\* and transaction it created or changed.
C25_EveryMutationAudited ==
    [][C25_Successful =>
          /\ \A x \in DOMAIN equipment :
                equipment'[x] # equipment[x] => C25_Audited("equipment", x)
          /\ \A b \in DOMAIN bags :
                bags'[b] # bags[b] => C25_Audited("bags", b)
          /\ \A e \in DOMAIN events :
                events'[e] # events[e] => C25_Audited("events", e)
          /\ \A i \in DOMAIN reservations' :
                (i \notin DOMAIN reservations \/ reservations'[i] # reservations[i])
                => C25_Audited("reservations", ToString(i))
          /\ \A i \in DOMAIN transactions' :
                (i \notin DOMAIN transactions \/ transactions'[i] # transactions[i])
                => C25_Audited("transactions", ToString(i))]_vars

-----------------------------------------------------------------------------
(* C26 *)

\* the step is a call of a reservation or transaction handler that is
\* rejected or fails
C26_Failed ==
    /\ Idle
    /\ resp'.op \in {"create_reservation", "update_reservation", "cancel_reservation",
                     "create_transaction", "update_transaction", "cancel_transaction"}
    /\ resp'.code \notin {200, 201, 204}

\* C26: every reservation or transaction operation is all-or-nothing: when it
\* is rejected or fails at any step (validation, precondition, conflict,
\* constraint or audit recording) the store after the call equals the store
\* before it, with no row, status change or audit row left behind.
C26_AllOrNothing ==
    [][C26_Failed => UNCHANGED store]_vars

\* the audit recorder failed in a return of the standalone equipment, which
\* is still in use under its one withdrawal
C26_Witness ==
    /\ resp = Response("create_transaction", 500, "audit", 0)
    /\ Len(transactions) = 1
    /\ transactions[1].equipment_id = "x1"
    /\ equipment["x1"].status = "in_use"
    /\ equipment["m1"].status = "available"
    /\ Len(audit_log) = 2

-----------------------------------------------------------------------------
(* C27 *)

\* C27: the audit log is append-only: no step of any operation modifies or
\* removes an audit row once it is written, so the audit log of every later
\* state extends the audit log of every earlier state.
C27_AuditAppendOnly ==
    [][/\ Len(audit_log') >= Len(audit_log)
       /\ SubSeq(audit_log', 1, Len(audit_log)) = audit_log]_vars

\* an update of a transaction was recorded behind the two rows of its creation
C27_Witness ==
    /\ resp.op = "update_transaction"
    /\ resp.code = 200
    /\ Len(audit_log) = 3
    /\ audit_log[1].action = "INSERT"
    /\ audit_log[3].action = "UPDATE"
    /\ audit_log[3].table_name = "transactions"
    /\ audit_log[3].record_id = audit_log[1].record_id

-----------------------------------------------------------------------------
(* C28 *)

\* the payload sets the status to maintenance or excluded
C28_Case(req) == req.status \in {"maintenance", "excluded"}

\* C28: after an update_equipment that sets the status to maintenance or
\* excluded, and after a delete_equipment, the bag_id of the equipment is
\* null, whatever bag_id it had before and whatever bag_id the update request
\* carries.
C28_BagCleared ==
    [][/\ called("update_equipment") =>
             \A id \in DOMAIN equipment, req \in EquipmentUpdate :
                 (C28_Case(req) /\ update_equipment(id, req))
                 => equipment'[id].bag_id = NULL
       /\ called("delete_equipment") =>
             \A id \in DOMAIN equipment :
                 delete_equipment(id) => equipment'[id].bag_id = NULL]_vars

-----------------------------------------------------------------------------
(* C29 *)

\* equipment x of table eq is in maintenance or excluded and has a bag_id
C29_InBagOutOfService(eq, x) ==
    /\ eq[x].status \in {"maintenance", "excluded"}
    /\ eq[x].bag_id # NULL

\* C29: in every state reachable through the equipment and bag operations no
\* equipment has status maintenance or excluded together with a non-null
\* bag_id.  init_db itself seeds a maintenance member of a bag, so the claim
\* is stated for the operations: no step of an operation leaves an
\* equipment in maintenance or excluded with a bag_id that was not in that
\* condition before the step.
C29_NoBagOutOfService ==
    [][\A x \in DOMAIN equipment' :
          C29_InBagOutOfService(equipment', x)
          => (x \in DOMAIN equipment /\ C29_InBagOutOfService(equipment, x))]_vars

-----------------------------------------------------------------------------
(* C30 *)

\* C30: terminal statuses are absorbing: once a reservation is cancelled or
\* completed, or a transaction is completed or cancelled, no step of any
\* operation changes that status again.
C30_TerminalAbsorbing ==
    [][/\ \A i \in DOMAIN reservations :
             reservations[i].status \in {"cancelled", "completed"}
             => reservations'[i].status = reservations[i].status
       /\ \A i \in DOMAIN transactions :
             transactions[i].status \in {"completed", "cancelled"}
             => transactions'[i].status = transactions[i].status]_vars

-----------------------------------------------------------------------------
(* Event administration.  A payload date is a wall clock with the offset   *)
(* of its time zone; the DateTime column keeps the wall clock only.        *)

\* the UTC offsets a payload date comes with: +00:00 and -03:00
PayloadOffsets == {0, BrasiliaOffset}

\* the instant of a payload date: its wall clock plus its offset to UTC
payload_instant(wall, tz) == wall + tz

\* EventBase.validate_dates: compares the two datetimes of the payload
EventBase_validate_dates(req) ==
    ~ (payload_instant(req.end_date, req.end_tz)
         < payload_instant(req.start_date, req.start_tz))

\* EventUpdate.validate_dates: compares only when both dates are given
EventUpdate_validate_dates(req) ==
    ~ (/\ req.end_date # NoDate
       /\ req.start_date # NoDate
       /\ payload_instant(req.end_date, req.end_tz)
            < payload_instant(req.start_date, req.start_tz))

\* the table without its CheckConstraint
check_event_dates_unchecked(row) ==
    TRUE

\* CheckConstraint check_event_dates
check_event_dates(row) ==
    row.end_date >= row.start_date

\* a code that no event of init_db has
NewEventCodes == {"e3"}

\* payloads of create_event: every window in every pair of time zones
EventCreate ==
    [code : {"e1"} \cup NewEventCodes, start_date : Times, start_tz : PayloadOffsets,
     end_date : Times, end_tz : PayloadOffsets, status : {"planned"}]

\* payloads of update_event: any of the two dates, with or without a status
EventUpdate ==
    [start_date : Times \cup {NoDate}, start_tz : PayloadOffsets,
     end_date : Times \cup {NoDate}, end_tz : PayloadOffsets,
     status : {NULL, "confirmed"}]

create_event(req) ==
    LET op == "create_event"
        new_event == [status |-> req.status, start_date |-> req.start_date,
                      end_date |-> req.end_date]
    IN
    IF ~ EventBase_validate_dates(req)
    THEN Reject(op, 422, "validation", 0)
    ELSE IF req.code \in DOMAIN events
    THEN Reject(op, 400, "Event code already exists", 0)
    ELSE IF ~ check_event_dates(new_event)
    THEN Reject(op, 500, "IntegrityError", 0)
    ELSE /\ events' = [e \in DOMAIN events \cup {req.code} |->
                          IF e = req.code THEN new_event ELSE events[e]]
         /\ resp' = Response(op, 201, "", 0)
         /\ UNCHANGED <<equipment, bags, reservations, transactions, audit_log,
                        now, session>>

update_event(event_id, req) ==
    LET op == "update_event" IN
    IF ~ EventUpdate_validate_dates(req)
    THEN Reject(op, 422, "validation", 0)
    ELSE IF event_id \notin DOMAIN events
    THEN Reject(op, 404, "Event not found", 0)
    ELSE
      LET event == events[event_id]
          updated == [event EXCEPT
                        !.start_date = IF req.start_date # NoDate THEN req.start_date ELSE @,
                        !.end_date = IF req.end_date # NoDate THEN req.end_date ELSE @,
                        !.status = IF req.status # NULL THEN req.status ELSE @]
      IN
      IF ~ check_event_dates(updated)
      THEN Reject(op, 500, "IntegrityError", 0)
      ELSE /\ events' = [events EXCEPT ![event_id] = updated]
           /\ resp' = Response(op, 200, "", 0)
           /\ UNCHANGED <<equipment, bags, reservations, transactions, audit_log,
                          now, session>>

\* payloads of create_reservation: every window of one equipment
ReservationCreateDates ==
    {ReservationPayload(<<"x1", NULL, FALSE>>, "e1", s, t, "active") :
        s \in Times, t \in Times}

\* payloads of update_reservation: any of the two dates
ReservationUpdateDates ==
    [start_date : Times \cup {NoDate}, end_date : Times \cup {NoDate}, status : {NULL}]

CreateEvent ==
    /\ Idle
    /\ \E req \in EventCreate : create_event(req)

UpdateEvent ==
    /\ Idle
    /\ \E id \in {"e1", GHOST}, req \in EventUpdate : update_event(id, req)

\* Event and reservation calls that write dates, one at a time
NextDates ==
    \/ CreateEvent
    \/ UpdateEvent
    \/ CreateReservation(ReservationCreateDates, MaxHeld)
    \/ UpdateReservation(ReservationUpdateDates, MaxHeld)
    \/ Deliver

SpecDates == Init /\ [][NextDates]_vars

-----------------------------------------------------------------------------
(* C31 *)

\* C31: in every reachable state every event and every reservation has an
\* end_date that is not before its start_date, also after an update that
\* carried only one of the two dates.
C31_DatesOrdered ==
    /\ \A e \in DOMAIN events : events[e].end_date >= events[e].start_date
    /\ \A i \in DOMAIN reservations :
          reservations[i].end_date >= reservations[i].start_date

\* an update that carried only the end date of the seeded event was
\* accepted and left the stored start date
C31_Witness ==
    /\ resp.op = "update_event" /\ resp.code = 200
    /\ events["e1"].start_date = SeedEvents["e1"].start_date
    /\ events["e1"].end_date \in Times

-----------------------------------------------------------------------------
(* Reservation and transaction calls, one at a time, with the clock *)

\* payloads of create_reservation: the standalone equipment and the bag, for
\* event e1 with one window
ReservationCreateActive ==
    {ReservationPayload(c, "e1", 0, 1, "active") :
        c \in {<<"x1", NULL, FALSE>>, <<NULL, "b1", TRUE>>}}

\* payloads of create_transaction: the standalone equipment for event e1 and
\* the bag for event e2
TransactionCreateEvents ==
    {TransactionPayload(<<"x1", NULL, FALSE>>, "e1", ty, "pending") : ty \in TransactionType}
    \cup {TransactionPayload(<<NULL, "b1", TRUE>>, "e2", ty, "pending") : ty \in TransactionType}

CreateEventMove ==
    /\ Idle
    /\ \E req \in TransactionCreateEvents : create_transaction(req)
    /\ Len(transactions') <= MaxMoves

NextEvents ==
    \/ CreateReservation(ReservationCreateActive, MaxHeld)
    \/ UpdateReservation(ReservationUpdateStatus, MaxHeld)
    \/ CancelReservation(MaxHeld)
    \/ CreateEventMove
    \/ Tick
    \/ Deliver

SpecEvents == Init /\ [][NextEvents]_vars

-----------------------------------------------------------------------------
(* C32 *)

\* the step is a successful create_transaction of a return for event e
C32_ReturnFor(e) ==
    /\ called("create_transaction")
    /\ resp'.code = 201
    /\ transactions'[resp'.rid].transaction_type = "return"
    /\ transactions'[resp'.rid].event_id = e

\* C32: an in_progress event leaves in_progress only inside a successful
\* return transaction for it, created at or after end_date + 24 hours, which
\* completes it; no reservation call, no withdrawal and no advance of the
\* clock changes its status.  An event whose returns were all recorded
\* before end_date + 24 hours therefore stays in_progress as long as no
\* further return is created for it.
C32_CompletedOnlyByLateReturn ==
    [][\A e \in EventIds :
          (events[e].status = "in_progress" /\ events'[e].status # "in_progress")
              => /\ C32_ReturnFor(e)
                 /\ events'[e].status = "completed"
                 /\ now >= end_instant(events[e]) + CompletionWindow]_vars

-----------------------------------------------------------------------------
(* C33 *)

\* C33: in every state reached through reservation and transaction calls, no
\* active reservation targets an equipment that is outside any bag and
\* available, and none targets a bag that is available.
C33_AvailableHasNoActiveReservation ==
    \A i \in DOMAIN reservations :
        LET r == reservations[i] IN
        r.status = "active" =>
            /\ r.equipment_id # NULL =>
                  ~ (/\ equipment[r.equipment_id].bag_id = NULL
                     /\ equipment[r.equipment_id].status = "available")
            /\ r.bag_id # NULL => bags[r.bag_id].status # "available"

-----------------------------------------------------------------------------
(* Reservation and bag membership calls, one at a time *)

NextMembership ==
    \/ CreateReservation(ReservationCreateActive, MaxReservations)
    \/ UpdateReservation(ReservationUpdateStatus, MaxReservations)
    \/ CancelReservation(MaxReservations)
    \/ AddEquipmentToBag
    \/ RemoveEquipmentFromBag
    \/ Deliver

SpecMembership == Init /\ [][NextMembership]_vars

-----------------------------------------------------------------------------
(* C34 *)

\* an active reservation targets equipment x or the bag x is in
C34_Covered(x) ==
    \E i \in DOMAIN reservations :
        /\ reservations[i].status = "active"
        /\ \/ reservations[i].equipment_id = x
           \/ (equipment[x].bag_id # NULL /\ reservations[i].bag_id = equipment[x].bag_id)

\* C34: in every state reached through reservation, transaction and bag
\* membership calls, an equipment whose status is reserved is the target of
\* an active reservation, itself or through its bag, and a bag whose status
\* is reserved is the target of an active reservation.
C34_ReservedHasActiveReservation ==
    /\ \A x \in DOMAIN equipment :
          equipment[x].status = "reserved" => C34_Covered(x)
    /\ \A b \in DOMAIN bags :
          bags[b].status = "reserved" =>
              \E i \in DOMAIN reservations :
                  reservations[i].status = "active" /\ reservations[i].bag_id = b

-----------------------------------------------------------------------------
(* C35 *)

\* the step is a successful create_transaction of a return of equipment x or
\* of the bag x is in
C35_ReturnOf(x) ==
    /\ called("create_transaction")
    /\ resp'.code = 201
    /\ transactions'[resp'.rid].transaction_type = "return"
    /\ \/ transactions'[resp'.rid].equipment_id = x
       \/ /\ equipment[x].bag_id # NULL
          /\ transactions'[resp'.rid].bag_id = equipment[x].bag_id

\* C35: among reservation and transaction calls, an equipment that is in_use
\* leaves in_use only in a successful return transaction of it or of its
\* bag; creating, cancelling or completing a reservation never changes the
\* status of an in_use equipment.
C35_InUseLeftOnlyByReturn ==
    [][\A x \in EquipmentIds :
          (equipment[x].status = "in_use" /\ equipment'[x].status # "in_use")
              => C35_ReturnOf(x)]_vars

-----------------------------------------------------------------------------
(* Transaction calls of every kind next to reservations, one at a time.    *)
(* A created transaction leaves two audit rows, and the log has room for   *)
(* an update and a cancellation of it.                                     *)

CreateHeldMove ==
    /\ Idle
    /\ \E req \in TransactionCreateEvents : create_transaction(req)
    /\ Len(transactions') <= MaxTransactions

UpdateHeldMove ==
    /\ Idle
    /\ \E id \in 1 .. MaxTransactions, req \in TransactionUpdate :
          update_transaction(id, req)
    /\ Len(audit_log') <= MaxAudit + 1

CancelHeldMove ==
    /\ Idle
    /\ \E id \in 1 .. MaxTransactions : cancel_transaction(id)
    /\ Len(audit_log') <= MaxAudit + 1

NextTransactionAdmin ==
    \/ CreateReservation(ReservationCreateActive, MaxHeld)
    \/ CreateHeldMove
    \/ UpdateHeldMove
    \/ CancelHeldMove
    \/ Deliver

SpecTransactionAdmin == Init /\ [][NextTransactionAdmin]_vars

-----------------------------------------------------------------------------
(* C36 *)

\* the step is a call of update_transaction or of cancel_transaction
C36_Case ==
    called("update_transaction") \/ called("cancel_transaction")

\* C36: update_transaction and cancel_transaction leave every equipment,
\* bag, event and reservation as it was and every transaction row but the
\* targeted one; a successful call appends exactly one audit row, which is
\* about the targeted transaction, and a refused or failed call changes
\* nothing.
C36_OnlyTheRowAndOneAuditRow ==
    [][C36_Case =>
          /\ UNCHANGED <<equipment, bags, events, reservations>>
          /\ DOMAIN transactions' = DOMAIN transactions
          /\ \A i \in DOMAIN transactions :
                i # resp'.rid => transactions'[i] = transactions[i]
          /\ IF resp'.code \in {200, 204}
             THEN /\ Len(audit_log') = Len(audit_log) + 1
                  /\ SubSeq(audit_log', 1, Len(audit_log)) = audit_log
                  /\ audit_log'[Len(audit_log')].table_name = "transactions"
                  /\ audit_log'[Len(audit_log')].record_id = ToString(resp'.rid)
             ELSE UNCHANGED <<transactions, audit_log>>]_vars

\* a withdrawn, reserved equipment whose withdrawal was set back to pending
\* and then cancelled
C36_Witness ==
    /\ resp.op = "cancel_transaction" /\ resp.code = 204
    /\ transactions[resp.rid].equipment_id = "x1"
    /\ equipment["x1"].status = "in_use"
    /\ events["e1"].status = "in_progress"
    /\ \E i \in DOMAIN reservations : reservations[i].equipment_id = "x1"

-----------------------------------------------------------------------------
(* C37 *)

\* the active reservations on the equipment or the bag of a transaction row
C37_Holders(row) ==
    {i \in DOMAIN reservations :
        /\ reservations[i].status = "active"
        /\ same_resource(reservations[i], row)}

\* the equipment or the bag of the row has status reserved
C37_Reserved(row) ==
    \/ row.equipment_id # NULL /\ equipment[row.equipment_id].status = "reserved"
    \/ row.bag_id # NULL /\ bags[row.bag_id].status = "reserved"

\* C37: a withdrawal of an equipment or bag whose status is reserved and
\* that an active reservation holds is accepted only for the event that
\* reservation names; a withdrawal for any other event is rejected.
C37_WithdrawalForReservingEvent ==
    [][(/\ called("create_transaction")
        /\ resp'.code = 201
        /\ transactions'[resp'.rid].transaction_type = "withdrawal"
        /\ C37_Reserved(transactions'[resp'.rid])
        /\ C37_Holders(transactions'[resp'.rid]) # {})
          => \E i \in C37_Holders(transactions'[resp'.rid]) :
                reservations[i].event_id = transactions'[resp'.rid].event_id]_vars

-----------------------------------------------------------------------------
(* C38 *)

\* the equipment or the bag of the row is in_use
C38_InUse(row) ==
    \/ row.equipment_id # NULL /\ equipment[row.equipment_id].status = "in_use"
    \/ row.bag_id # NULL /\ bags[row.bag_id].status = "in_use"

\* C38: a return transaction is accepted only for a resource that is in_use
\* right before the call, a bag as well as a single equipment; a return of a
\* bag that is available or reserved is rejected and leaves the status of
\* the bag as it was.
C38_ReturnOnlyInUse ==
    [][(/\ called("create_transaction")
        /\ resp'.code = 201
        /\ transactions'[resp'.rid].transaction_type = "return")
          => C38_InUse(transactions'[resp'.rid])]_vars

-----------------------------------------------------------------------------
(* C39 *)

\* C39: in every state reached through reservation and bag membership
\* calls, no equipment is held at once by an active reservation on itself
\* and by an active reservation on the bag it is in whose windows overlap.
C39_NotHeldTwice ==
    \A x \in DOMAIN equipment :
        \A i \in DOMAIN reservations, j \in DOMAIN reservations :
            ~ (/\ reservations[i].status = "active"
               /\ reservations[j].status = "active"
               /\ reservations[i].equipment_id = x
               /\ equipment[x].bag_id # NULL
               /\ reservations[j].bag_id = equipment[x].bag_id
               /\ overlap(reservations[i], reservations[j]))

-----------------------------------------------------------------------------
(* C40 *)

\* the place of an event status on the way planned/confirmed ->
\* in_progress -> completed
C40_Rank(status) ==
    CASE status \in {"planned", "confirmed"} -> 0
      [] status = "in_progress" -> 1
      [] status = "completed" -> 2
      [] OTHER -> 3

\* C40: under reservation and transaction calls the status of an event only
\* moves forward, from planned or confirmed to in_progress and from
\* in_progress to completed; no call moves an event backwards, and none
\* changes an event that is completed or cancelled.
C40_EventMovesForward ==
    [][\A e \in EventIds :
          events'[e].status # events[e].status =>
              /\ events[e].status \notin {"completed", "cancelled"}
              /\ C40_Rank(events'[e].status) = C40_Rank(events[e].status) + 1]_vars

\* event e1, confirmed at first, has been put in progress by a withdrawal
\* and completed by a return, and a later withdrawal for it was refused
C40_Witness ==
    /\ events["e1"].status = "completed"
    /\ resp.op = "create_transaction" /\ resp.code = 400
    /\ resp.detail = "event status"
    /\ events["e2"].status = "in_progress"

====
